---- MODULE Spec2Model ----
(***************************************************************************)
(* ManifestProcessor (src/processors/manifest/index.ts): the incremental   *)
(* build orchestrator of the chrome-extension plugin, together with the    *)
(* scalar override processors (modules/override/processor).                *)
(*                                                                         *)
(* JavaScript runs one job at a time.  A step of the model is either one   *)
(* synchronous public call of the orchestrator (resolve, generateBundle,   *)
(* toString, clearCacheById), or the continuation of one suspended         *)
(* `await` inside buildComponent / buildArrayComponent.                    *)
(***************************************************************************)
EXTENDS Naturals, Sequences, FiniteSets, TLC

\* ------------------------------------------------------------------ bounds
\* The resolve() calls that validate and the generateBundle() calls of a
\* run: once there were that many, the caller makes no further call.
MaxCalls == 4
\* Most builds that may still be suspended when generateBundle() is called.
MaxOverlap == 1

\* ------------------------------------------------------------------ values
\* JavaScript `undefined` for a path-valued field.
None == "undefined"

ScalarSections ==
    {"background", "popup", "options_page", "options_ui", "devtools",
     "bookmarks", "history", "newtab"}
ArraySections == {"content_scripts", "web_accessible_resources"}
OverrideSections == {"bookmarks", "history", "newtab"}

\* The emitted output path the bundler collaborator reports for a source
\* entry: a TypeScript / HTML source is emitted under a new name, an
\* already emitted file keeps its name.  w.js is a source of its own, next
\* to w.ts, and is emitted as w.out.js.
Output(p) ==
    CASE p = "bg.ts"  -> "bg.js"
      [] p = "bg2.ts" -> "bg2.js"
      [] p = "c1.ts"  -> "c1.js"
      [] p = "c2.ts"  -> "c2.js"
      [] p = "c3.ts"  -> "c3.js"
      [] p = "p.html" -> "p.out.html"
      [] p = "o.html" -> "o.out.html"
      [] p = "u.html" -> "u.out.html"
      [] p = "d.html" -> "d.out.html"
      [] p = "r.ts"   -> "r.js"
      [] p = "w.ts"   -> "w.js"
      [] p = "w.js"   -> "w.out.js"
      [] OTHER        -> p

\* The sources the bundler collaborator fails to compile.
Broken == {"bad.ts"}

\* ---------------------------------------------------------------- manifest
\* ChromeExtensionManifest, restricted to the fields the orchestrator reads
\* or patches.  background stands for background.service_worker, action for
\* action.default_popup, options_ui for options_ui.page; content_scripts is
\* the sequence of the groups' js arrays, web_accessible_resources the
\* sequence of the groups' resources arrays.
NoOverrides == [exists |-> FALSE, bookmarks |-> None, history |-> None, newtab |-> None]

EmptyManifest ==
    [background               |-> None,
     content_scripts          |-> <<>>,
     action                   |-> None,
     options_page             |-> None,
     options_ui               |-> None,
     devtools_page            |-> None,
     chrome_url_overrides     |-> NoOverrides,
     web_accessible_resources |-> <<>>]

Overrides(b, h, n) == [exists |-> TRUE, bookmarks |-> b, history |-> h, newtab |-> n]

\* The contents manifest.json takes over time, in two extension projects:
\* one of scripts (M1, M2) and one of pages (M4, M5).  M3 is the mistake of
\* declaring both options pages.
M1 == [EmptyManifest EXCEPT
         !.background = "bg.ts",
         !.content_scripts = << <<"c1.ts", "c2.ts">> >>,
         !.chrome_url_overrides = Overrides("a.html", "h.html", None)]
M2 == [EmptyManifest EXCEPT
         !.background = "bg.ts",
         !.content_scripts = << <<"c2.ts">>, <<"c2.ts", "c3.ts">> >>,
         !.chrome_url_overrides = Overrides("b.html", "h.html", None)]
M3 == [EmptyManifest EXCEPT
         !.options_page = "o.html",
         !.options_ui = "u.html"]
M4 == [EmptyManifest EXCEPT
         !.action = "p.html",
         !.options_ui = "u.html",
         !.web_accessible_resources = << <<"r.ts", "bad.ts">> >>]
M5 == [EmptyManifest EXCEPT
         !.action = "p.html",
         !.devtools_page = "d.html",
         !.chrome_url_overrides = Overrides(None, None, "n.html")]

\* A third project, of workers: the output path of w.ts is the path of the
\* source next to it.
M6 == [EmptyManifest EXCEPT
         !.background = "bg.ts",
         !.content_scripts = << <<"w.ts", "w.js">> >>,
         !.web_accessible_resources = << <<"r.ts">> >>]

Projects == {"scripts", "pages"}
Manifests(p) ==
    CASE p = "scripts" -> {M1, M2, M3}
      [] p = "pages"   -> {M4, M5, M3}
      [] OTHER         -> {M6, M3}

\* ------------------------------------------------------------------ parser
\* ChromeExtensionManifestParser: the entries snapshot of a manifest and the
\* diff of two snapshots.
RECURSIVE Flatten(_)
Flatten(groups) ==
    IF groups = <<>> THEN <<>> ELSE Head(groups) \o Flatten(Tail(groups))

SeqToSet(q) == {q[i] : i \in 1..Len(q)}

\* q without repeated paths, each kept at its first position.
RECURSIVE Distinct(_)
Distinct(q) ==
    IF q = <<>> THEN <<>>
    ELSE LET init == Distinct(SubSeq(q, 1, Len(q) - 1))
             x    == q[Len(q)]
         IN  IF x \in SeqToSet(init) THEN init ELSE Append(init, x)

\* The paths of q that are not in the set S, in q's order.
Minus(q, S) == SelectSeq(q, LAMBDA x : x \notin S)

entries(manifest) ==
    [scalar |->
        [s \in ScalarSections |->
            CASE s = "background"   -> manifest.background
              [] s = "popup"        -> manifest.action
              [] s = "options_page" -> manifest.options_page
              [] s = "options_ui"   -> manifest.options_ui
              [] s = "devtools"     -> manifest.devtools_page
              [] s = "bookmarks"    -> manifest.chrome_url_overrides.bookmarks
              [] s = "history"      -> manifest.chrome_url_overrides.history
              [] s = "newtab"       -> manifest.chrome_url_overrides.newtab],
     array |->
        [s \in ArraySections |->
            IF s = "content_scripts"
            THEN Distinct(Flatten(manifest.content_scripts))
            ELSE Distinct(Flatten(manifest.web_accessible_resources))]]

NoEntryDiff == [status |-> "none", entry |-> None]
NoArrayDiff == [create |-> <<>>, delete |-> <<>>, update |-> <<>>]
EmptyDiff ==
    [scalar |-> [s \in ScalarSections |-> NoEntryDiff],
     array  |-> [s \in ArraySections |-> NoArrayDiff]]
EmptyEntries == entries(EmptyManifest)

\* The diff of a first resolve: every populated section is a create.
entriesToDiff(cur) ==
    [scalar |->
        [s \in ScalarSections |->
            IF cur.scalar[s] = None THEN NoEntryDiff
            ELSE [status |-> "create", entry |-> cur.scalar[s]]],
     array |->
        [s \in ArraySections |->
            [create |-> cur.array[s], delete |-> <<>>, update |-> <<>>]]]

diffEntries(prev, cur) ==
    [scalar |->
        [s \in ScalarSections |->
            CASE prev.scalar[s] = cur.scalar[s] -> NoEntryDiff
              [] prev.scalar[s] = None -> [status |-> "create", entry |-> cur.scalar[s]]
              [] cur.scalar[s] = None  -> [status |-> "delete", entry |-> prev.scalar[s]]
              [] OTHER                 -> [status |-> "update", entry |-> cur.scalar[s]]],
     array |->
        [s \in ArraySections |->
            [create |-> Minus(cur.array[s], SeqToSet(prev.array[s])),
             delete |-> Minus(prev.array[s], SeqToSet(cur.array[s])),
             update |-> <<>>]]]

\* ------------------------------------------------------------------- state
VARIABLES
    project,         \* the extension project the plugin builds
    extendManifest,  \* options.extendManifest: "absent", "object" or "function"
    cache,           \* ChromeExtensionManifestCache: manifest, entries, entriesDiff
    cache2,          \* assetChanged, and readFile: the ids whose read is memoized
    pending,         \* the builds suspended at an await, in dispatch order
    callerManifest,  \* the object the caller passed to the resolve that installed cache.manifest
    shared,          \* what cache.manifest and the caller's object have in common
    previousArgument, \* the manifest content the latest successful resolve was given
    resolves,        \* how many resolve() calls validated: the number of the stored diff
    bundles,         \* how many generateBundle() calls were made
    dispatchedDiff,  \* the number of the diff the latest generateBundle() dispatched
    inCycles,        \* the calls so far were resolve -> generateBundle cycles, each
                     \* run to the end of its builds before the next began
    last             \* the step taken last

vars ==
    <<project, extendManifest, cache, cache2, pending, callerManifest, shared,
      previousArgument, resolves, bundles, dispatchedDiff, inCycles, last>>

Undefined(v) == [defined |-> FALSE, value |-> v]
Defined(v)   == [defined |-> TRUE, value |-> v]

\* The fields whose value is a nested object or array of the manifest.
NestedFields ==
    {"content_scripts", "action", "options_ui", "chrome_url_overrides",
     "web_accessible_resources"}

\* What a step records of itself:
\*   resolve         threw: validation threw; both: the argument defines both
\*                   options pages; first: no entries snapshot was stored;
\*                   repeat: the argument has the content the latest
\*                   successful resolve was given; cleared: the output
\*                   manifest had been discarded and a snapshot was stored
\*   generateBundle  dispatched: the builds it dispatched; redispatch: an
\*                   earlier generateBundle() dispatched the same diff;
\*                   overlap: a build of an earlier diff was still suspended
\*   complete, fail  secs: the sections of the builds that resumed; stale:
\*                   a later resolve had replaced their diff; patched: a
\*                   callback changed the output manifest; input: the path
\*                   of an array section whose processor.resolve returned
\*                   or threw
\*   clearCacheById, readAssetAsBuffer  id: the id they were called with
Step(op) ==
    [op |-> op, threw |-> FALSE, both |-> FALSE, first |-> FALSE, repeat |-> FALSE,
     dispatched |-> 0, redispatch |-> FALSE, overlap |-> FALSE,
     secs |-> {}, stale |-> FALSE, patched |-> FALSE, input |-> None,
     cleared |-> FALSE, id |-> None]

\* ----------------------------------------------------------------- resolve
\* validateChromeExtensionManifest: TRUE when it returns, FALSE when it throws.
validateChromeExtensionManifest(manifest) ==
    ~(manifest.options_page # None /\ manifest.options_ui # None)

\* options.extendManifest in its object form, { options_page: "o.html" }, and
\* in its function form, m => ({ ...m, name: "dev" }), which changes no
\* field the orchestrator reads.
ExtendForms == {"absent", "object", "function"}

applyExternalManifestConfiguration(form, manifest) ==
    CASE form = "function" -> manifest
      [] form = "object"   -> [manifest EXCEPT !.options_page = "o.html"]
      [] OTHER             -> manifest

\* What the object applyExternalManifestConfiguration returns has in common
\* with its argument: it is the argument itself, or a shallow copy of it
\* that holds the same nested objects.
SharedAfterApply(form) ==
    IF form = "absent"
    THEN [same |-> TRUE, nested |-> NestedFields]
    ELSE [same |-> FALSE, nested |-> NestedFields]

\* A faulty ResolveDiff: it never looks at the stored snapshot.
ResolveDiffNoSnapshot(stored, cur) == entriesToDiff(cur)

\* Lines 104-106: the diff against the stored snapshot, or the diff of a
\* first resolve when no snapshot is stored.
ResolveDiff(stored, cur) ==
    IF stored.defined THEN diffEntries(stored.value, cur) ELSE entriesToDiff(cur)

\* A faulty ResolvedCache: line 108 moved above line 104, so the snapshot is
\* stored before the diff against it is taken.
ResolvedCacheSnapshotFirst(c, form, manifest) ==
    LET currentManifest == applyExternalManifestConfiguration(form, manifest)
        cur == entries(currentManifest)
    IN  [manifest    |-> Defined(currentManifest),
         entriesDiff |-> Defined(ResolveDiff(Defined(cur), cur)),
         entries     |-> Defined(cur)]

\* Lines 99-108: the cache after a resolve that validated.
ResolvedCache(c, form, manifest) ==
    LET currentManifest == applyExternalManifestConfiguration(form, manifest)
        cur == entries(currentManifest)
    IN  [manifest    |-> Defined(currentManifest),
         entriesDiff |-> Defined(ResolveDiff(c.entries, cur)),
         entries     |-> Defined(cur)]

\* A faulty RejectedCache: line 101 moved above line 97, so the manifest is
\* installed before it is validated.
RejectedCacheInstalled(c, form, manifest) ==
    [c EXCEPT !.manifest = Defined(applyExternalManifestConfiguration(form, manifest))]

\* Line 97: the cache after a resolve whose validation threw.
RejectedCache(c, form, manifest) == c

Resolve(manifest) ==
    LET ok == validateChromeExtensionManifest(manifest)
    IN  /\ resolves + bundles < MaxCalls
        /\ cache' = IF ok THEN ResolvedCache(cache, extendManifest, manifest)
                    ELSE RejectedCache(cache, extendManifest, manifest)
        /\ callerManifest' = IF ok THEN Defined(manifest) ELSE callerManifest
        /\ shared' = IF ok THEN SharedAfterApply(extendManifest) ELSE shared
        /\ previousArgument' = IF ok THEN Defined(manifest) ELSE previousArgument
        /\ resolves' = IF ok THEN resolves + 1 ELSE resolves
        /\ inCycles' = IF ok
                       THEN inCycles /\ dispatchedDiff = resolves /\ pending = <<>>
                       ELSE inCycles
        /\ last' = [Step("resolve") EXCEPT
                      !.threw  = ~ok,
                      !.both   = (manifest.options_page # None /\ manifest.options_ui # None),
                      !.first  = ~cache.entries.defined,
                      !.cleared = ~cache.manifest.defined /\ cache.entries.defined,
                      !.repeat = previousArgument = Defined(manifest)]
        /\ UNCHANGED <<project, extendManifest, cache2, pending, bundles, dispatchedDiff>>

\* The caller passes a freshly loaded manifest.json, or once more the object
\* it passed before.
ResolveCall ==
    \E manifest \in Manifests(project) \cup
                    (IF callerManifest.defined THEN {callerManifest.value} ELSE {}) :
        Resolve(manifest)

\* ---------------------------------------------------------- buildComponents
\* A build suspended at an await.  A scalar build awaits processor.resolve
\* (entry) or processor.stop(); an array build awaits processor.resolve of
\* the head of create, or, with create used up, processor.stop() for the
\* head of delete.  diff and cycle are filled in by generateBundle: the
\* number of the diff the build was dispatched for and the number of the
\* generateBundle() call that dispatched it.  micro: what it awaits is no
\* promise, so it resumes as a microtask.
Task(s, op, entry, create, delete) ==
    [sec |-> s, op |-> op, entry |-> entry, create |-> create, delete |-> delete,
     diff |-> 0, cycle |-> 0, micro |-> s \in OverrideSections]

\* Lines 180-200.  The override processors define no stop(), so a delete of
\* their section throws at once and leaves nothing suspended.
buildComponent(diff, s) ==
    LET d == diff.scalar[s]
    IN  CASE d.status \in {"create", "update"} ->
                << Task(s, "resolve", d.entry, <<>>, <<>>) >>
          [] d.status = "delete" /\ s \notin OverrideSections ->
                << Task(s, "stop", d.entry, <<>>, <<>>) >>
          [] OTHER -> <<>>

\* A faulty buildArrayComponent: the elements of create are built at the
\* same time, each in a build of its own.
buildArrayComponentAtOnce(diff, s) ==
    LET d == diff.array[s]
    IN  [i \in DOMAIN d.create |-> Task(s, "resolve", None, <<d.create[i]>>, <<>>)]

\* Lines 202-213.
buildArrayComponent(diff, s) ==
    LET d == diff.array[s]
    IN  IF d.create = <<>> /\ d.delete = <<>> THEN <<>>
        ELSE << Task(s, IF d.create # <<>> THEN "resolve" ELSE "stop", None,
                     d.create, d.delete) >>

\* Lines 116-178: the builds a diff dispatches, in the order of the source.
buildComponents(diff) ==
    buildComponent(diff, "background")
    \o buildArrayComponent(diff, "content_scripts")
    \o buildComponent(diff, "popup")
    \o buildComponent(diff, "options_page")
    \o buildComponent(diff, "options_ui")
    \o buildComponent(diff, "devtools")
    \o buildComponent(diff, "bookmarks")
    \o buildComponent(diff, "history")
    \o buildComponent(diff, "newtab")
    \o buildArrayComponent(diff, "web_accessible_resources")

\* Lines 111-114: the builds generateBundle() dispatches.
Dispatched(c) ==
    IF c.entriesDiff.defined THEN buildComponents(c.entriesDiff.value) ELSE <<>>

Stamped(tasks, d, c) ==
    [i \in DOMAIN tasks |-> [tasks[i] EXCEPT !.diff = d, !.cycle = c]]

generateBundle ==
    LET new == Dispatched(cache)
    IN  /\ resolves + bundles < MaxCalls
        /\ Len(pending) <= MaxOverlap
        /\ bundles' = bundles + 1
        /\ pending' = pending \o Stamped(new, resolves, bundles + 1)
        /\ dispatchedDiff' = resolves
        /\ inCycles' = (inCycles /\ dispatchedDiff < resolves)
        /\ last' = [Step("generateBundle") EXCEPT
                      !.dispatched = Len(new),
                      !.redispatch = (resolves > 0 /\ dispatchedDiff = resolves),
                      !.overlap = \E i \in DOMAIN pending : pending[i].diff < resolves]
        /\ UNCHANGED <<project, extendManifest, cache2, cache, callerManifest, shared,
                       previousArgument, resolves>>

\* ------------------------------------------------------------------ patches
\* What `await processor.resolve(entry)` yields.  resolve of the override
\* processors takes a manifest and returns nothing: given the entry string
\* it finds no chrome_url_overrides in it and yields undefined.  The other
\* processors yield the output path of the entry.
ProcessorOutput(s, entry) ==
    IF s \in OverrideSections THEN None ELSE Output(entry)

\* The callbacks of lines 118-120 and 133-166, applied to the manifest m.
PatchScalar(m, s, output) ==
    CASE s = "background"   -> [m EXCEPT !.background = output]
      [] s = "popup"        -> IF m.action # None THEN [m EXCEPT !.action = output] ELSE m
      [] s = "options_page" -> [m EXCEPT !.options_page = output]
      [] s = "options_ui"   -> IF m.options_ui # None
                               THEN [m EXCEPT !.options_ui = output] ELSE m
      [] s = "devtools"     -> [m EXCEPT !.devtools_page = output]
      [] OTHER ->
            IF m.chrome_url_overrides.exists
            THEN [m EXCEPT !.chrome_url_overrides[s] = output]
            ELSE [m EXCEPT !.chrome_url_overrides =
                               [NoOverrides EXCEPT !.exists = TRUE, ![s] = output]]

\* A faulty ReplaceIn: only the first element that equals input, in the
\* order of the groups, becomes output.
ReplaceFirstIn(groups, input, output) ==
    [g \in DOMAIN groups |->
        [i \in DOMAIN groups[g] |->
            IF /\ groups[g][i] = input
               /\ \A h \in DOMAIN groups : \A j \in DOMAIN groups[h] :
                      (h < g \/ (h = g /\ j < i)) => groups[h][j] # input
            THEN output ELSE groups[g][i]]]

\* Lines 125-129: every element of every group that equals input becomes output.
ReplaceIn(groups, input, output) ==
    [g \in DOMAIN groups |->
        [i \in DOMAIN groups[g] |->
            IF groups[g][i] = input THEN output ELSE groups[g][i]]]

\* The callbacks of lines 122-131 and 168-177.
PatchArray(m, s, input, output) ==
    IF s = "content_scripts"
    THEN [m EXCEPT !.content_scripts = ReplaceIn(@, input, output)]
    ELSE [m EXCEPT !.web_accessible_resources = ReplaceIn(@, input, output)]

\* The manifest field a section's callback writes.
Field(s) ==
    CASE s = "background" -> "background"
      [] s = "popup"      -> "action"
      [] s = "devtools"   -> "devtools_page"
      [] s \in OverrideSections -> "chrome_url_overrides"
      [] OTHER            -> s

\* Whether the callback writes inside the field's nested object (TRUE) or
\* assigns the field of the manifest object itself (FALSE).
WritesNested(m, s) ==
    \/ s \in {"popup", "options_ui"} \cup ArraySections
    \/ s \in OverrideSections /\ m.chrome_url_overrides.exists

\* The caller's object after a callback turned cache.manifest from m into
\* patched: the same object shows every write, a shallow copy shows the
\* writes inside the nested objects it still has in common.
CallerAfterPatch(sh, caller, m, patched, s) ==
    CASE sh.same -> patched
      [] ~sh.same /\ WritesNested(m, s) /\ Field(s) \in sh.nested ->
            [caller EXCEPT ![Field(s)] = patched[Field(s)]]
      [] OTHER -> caller

SharedAfterPatch(sh, m, s) ==
    IF sh.same \/ WritesNested(m, s) THEN sh
    ELSE [sh EXCEPT !.nested = @ \ {Field(s)}]

\* ------------------------------------------------------------ continuations
\* Whether the await of the build t throws: the bundler fails on the entry.
Throws(t) ==
    /\ t.op = "resolve"
    /\ (IF t.sec \in ArraySections THEN Head(t.create) ELSE t.entry) \in Broken

\* The manifest after the callback of the build t ran (lines 190 and 208).
Callback(m, t) ==
    IF t.sec \in ArraySections
    THEN PatchArray(m, t.sec, Head(t.create), Output(Head(t.create)))
    ELSE PatchScalar(m, t.sec, ProcessorOutput(t.sec, t.entry))

\* What is left of the build t after its await returned: nothing of a scalar
\* build, the rest of the two loops of an array build.
Rest(t) ==
    IF t.sec \notin ArraySections THEN <<>>
    ELSE LET create == IF t.create # <<>> THEN Tail(t.create) ELSE <<>>
             delete == IF t.create # <<>> THEN t.delete ELSE Tail(t.delete)
         IN  IF create = <<>> /\ delete = <<>> THEN <<>>
             ELSE << [t EXCEPT !.create = create, !.delete = delete,
                               !.op = IF create # <<>> THEN "resolve" ELSE "stop"] >>

\* The manifest, the caller's object and what they have in common, after
\* the continuation of the build t ran on st.  Every callback starts with
\* `this.cache.manifest &&`; a build that awaited stop() calls none.
Resumed(st, t) ==
    IF t.op = "resolve" /\ ~Throws(t) /\ st.manifest.defined
    THEN LET m == st.manifest.value
             patched == Callback(m, t)
         IN  [manifest |-> Defined(patched),
              caller   |-> IF st.caller.defined
                           THEN Defined(CallerAfterPatch(st.shared, st.caller.value,
                                                         m, patched, t.sec))
                           ELSE st.caller,
              shared   |-> SharedAfterPatch(st.shared, m, t.sec)]
    ELSE st

RECURSIVE ResumedAll(_, _)
ResumedAll(st, tasks) ==
    IF tasks = <<>> THEN st ELSE ResumedAll(Resumed(st, Head(tasks)), Tail(tasks))

Current == [manifest |-> cache.manifest, caller |-> callerManifest, shared |-> shared]

Micro(t) == t.micro

\* The await of the build pending[i] returns or throws.  It awaited a promise
\* of the bundler, which settles in a later job than the one that queued the
\* microtasks: none of those is left.
Complete(i) ==
    LET t == pending[i]
        st == Resumed(Current, t)
    IN  /\ ~t.micro
        /\ SelectSeq(pending, Micro) = <<>>
        /\ pending' = SubSeq(pending, 1, i - 1)
                      \o (IF Throws(t) THEN <<>> ELSE Rest(t))
                      \o SubSeq(pending, i + 1, Len(pending))
        /\ cache' = [cache EXCEPT !.manifest = st.manifest]
        /\ callerManifest' = st.caller
        /\ shared' = st.shared
        /\ last' = [Step(IF Throws(t) THEN "fail" ELSE "complete") EXCEPT
                      !.secs = {t.sec},
                      !.stale = (t.diff < resolves),
                      !.patched = (st.manifest # cache.manifest),
                      !.input = IF t.sec \in ArraySections /\ t.op = "resolve"
                                THEN Head(t.create) ELSE None]
        /\ UNCHANGED <<project, extendManifest, cache2, previousArgument, resolves, bundles,
                       dispatchedDiff, inCycles>>

\* The builds that awaited the value of an override processor's resolve
\* resume as microtasks, which one generateBundle() call queued one after
\* the other: they run in that order with nothing in between.
Microtasks ==
    LET micro == SelectSeq(pending, Micro)
        block == SelectSeq(micro, LAMBDA t : t.cycle = Head(micro).cycle)
        st    == ResumedAll(Current, block)
    IN  /\ micro # <<>>
        /\ pending' = SelectSeq(pending, LAMBDA t : ~(t.micro /\ t.cycle = Head(micro).cycle))
        /\ cache' = [cache EXCEPT !.manifest = st.manifest]
        /\ callerManifest' = st.caller
        /\ shared' = st.shared
        /\ last' = [Step("complete") EXCEPT
                      !.secs = {block[k].sec : k \in DOMAIN block},
                      !.stale = (Head(micro).diff < resolves),
                      !.patched = (st.manifest # cache.manifest)]
        /\ UNCHANGED <<project, extendManifest, cache2, previousArgument, resolves, bundles,
                       dispatchedDiff, inCycles>>

\* The caller's `await` of the latest generateBundle() resumes.  The promise
\* was resolved when the call returned (lines 111-114 await nothing), so the
\* caller resumes as soon as the microtasks queued before it have run:
\* right after the call, or right after the override builds it dispatched.
Settle ==
    /\ \/ last.op = "generateBundle"
       \/ last.op = "complete" /\ last.secs # {} /\ last.secs \subseteq OverrideSections
    /\ SelectSeq(pending, Micro) = <<>>
    /\ last' = Step("settle")
    /\ UNCHANGED <<project, extendManifest, cache2, cache, pending, callerManifest, shared,
                   previousArgument, resolves, bundles, dispatchedDiff, inCycles>>

\* The ids the bundler reports: the manifest file, and the assets the
\* manifest refers to.  One asset is a file named manifest.json of its own.
ManifestPath == "src/manifest.json"
AssetIds == {"src/icon.png", "src/pwa/manifest.json"}
Ids == {ManifestPath} \cup AssetIds

\* Line 282: id.endsWith(manifestName).
EndsWithManifestName(id) == id \in {"src/manifest.json", "src/pwa/manifest.json"}

\* Lines 346-354: a read of an asset is memoized in cache2.readFile.
readAssetAsBuffer(filepath) ==
    /\ resolves + bundles < MaxCalls
    /\ cache2' = [cache2 EXCEPT !.readFile = @ \cup {filepath}]
    /\ last' = [Step("readAssetAsBuffer") EXCEPT !.id = filepath]
    /\ UNCHANGED <<project, extendManifest, cache, pending, callerManifest, shared,
                   previousArgument, resolves, bundles, dispatchedDiff, inCycles>>

\* A faulty clearCacheById: with the output manifest it discards the
\* entries snapshot too.
clearCacheByIdDropsEntries(id) ==
    /\ resolves + bundles < MaxCalls
    /\ IF EndsWithManifestName(id)
       THEN /\ cache' = [cache EXCEPT !.manifest = Undefined(EmptyManifest),
                                     !.entries = Undefined(EmptyEntries)]
            /\ cache2' = [cache2 EXCEPT !.assetChanged = FALSE]
            /\ callerManifest' = Undefined(EmptyManifest)
            /\ shared' = [same |-> FALSE, nested |-> {}]
            /\ inCycles' = FALSE
       ELSE /\ cache2' = [assetChanged |-> id \in cache2.readFile,
                          readFile     |-> cache2.readFile \ {id}]
            /\ UNCHANGED <<cache, callerManifest, shared, inCycles>>
    /\ last' = [Step("clearCacheById") EXCEPT !.id = id]
    /\ UNCHANGED <<project, extendManifest, pending, previousArgument, resolves, bundles,
                   dispatchedDiff>>

\* Lines 281-290.  With an id that ends with the manifest's file name the
\* file has changed: the caller will load it anew and lets go of the object
\* it passed before.  With another id the memoized read of it is dropped.
clearCacheById(id) ==
    /\ resolves + bundles < MaxCalls
    /\ IF EndsWithManifestName(id)
       THEN /\ cache' = [cache EXCEPT !.manifest = Undefined(EmptyManifest)]
            /\ cache2' = [cache2 EXCEPT !.assetChanged = FALSE]
            /\ callerManifest' = Undefined(EmptyManifest)
            /\ shared' = [same |-> FALSE, nested |-> {}]
            /\ inCycles' = FALSE
       ELSE /\ cache2' = [assetChanged |-> id \in cache2.readFile,
                          readFile     |-> cache2.readFile \ {id}]
            /\ UNCHANGED <<cache, callerManifest, shared, inCycles>>
    /\ last' = [Step("clearCacheById") EXCEPT !.id = id]
    /\ UNCHANGED <<project, extendManifest, pending, previousArgument, resolves, bundles,
                   dispatchedDiff>>

\* Lines 215-217.  JSON.stringify leaves out the fields that are undefined,
\* and yields undefined for an undefined manifest.
stringify(m) ==
    LET paths  == {k \in {"background", "action", "options_page", "options_ui",
                          "devtools_page"} : m[k] # None}
        arrays == {k \in {"content_scripts", "web_accessible_resources"} : m[k] # <<>>}
        over   == IF m.chrome_url_overrides.exists THEN {"chrome_url_overrides"} ELSE {}
    IN  [k \in paths \cup arrays \cup over |->
            IF k = "chrome_url_overrides"
            THEN [j \in {j \in OverrideSections : m.chrome_url_overrides[j] # None} |->
                     m.chrome_url_overrides[j]]
            ELSE m[k]]

toString ==
    IF cache.manifest.defined
    THEN Defined(stringify(cache.manifest.value))
    ELSE Undefined(stringify(EmptyManifest))

\* -------------------------------------------------------- scalar processor
\* OverrideBookmarksProcessor, OverrideHistoryProcessor and
\* OverrideNewtabProcessor: the same class but for the sub-field of
\* chrome_url_overrides that resolve reads.
VARIABLES
    processor,   \* which of the three the processor is
    procCache,   \* its _cache: entry and module
    procResult,  \* the latest call on it and how it ended
    normalized   \* the latest normalizeOptions call: its argument and what it returned

procVars == <<processor, procCache, procResult, normalized>>
allVars == <<vars, procVars>>

\* A ChromeExtensionModule is the object a build made from an entry; two
\* builds of one entry make two objects.  Empty is the sentinel.
Module(id, entry) == [id |-> id, entry |-> entry]
Empty == Module(0, None)

\* A processor as its constructor leaves it.
Constructed == [entry |-> None, module |-> Empty]

\* What `!v` and `v &&` take for false of a path: undefined and "".
Falsy(v) == v \in {None, ""}

\* manifest.chrome_url_overrides?.bookmarks (or .history, .newtab).
SubField(kind, manifest) ==
    IF manifest.chrome_url_overrides.exists
    THEN manifest.chrome_url_overrides[kind] ELSE None

\* A faulty ProcResolved: the entry is assigned whether the field is there
\* or not.
ProcResolvedAlways(kind, c, manifest) == [c EXCEPT !.entry = SubField(kind, manifest)]

\* Lines 88-91 (and 138-141, 188-191): the cache after resolve(manifest).
ProcResolved(kind, c, manifest) ==
    IF ~Falsy(SubField(kind, manifest))
    THEN [c EXCEPT !.entry = manifest.chrome_url_overrides[kind]]
    ELSE c

\* A faulty BuildThrows: lines 97-99 left out, so build() returns whatever
\* module is cached.
BuildNeverThrows(c) == FALSE

\* Lines 93-102 (and 143-152, 193-202): whether build() throws, and the
\* cache it leaves.  It returns the module of that cache.
BuildThrows(c) == ~Falsy(c.entry) /\ c.module.entry # c.entry

\* A faulty ProcBuilt: build() makes a new module of the entry on every call.
ProcBuiltAnew(c) ==
    IF Falsy(c.entry) THEN [c EXCEPT !.module = Empty]
    ELSE [c EXCEPT !.module = Module(IF c.module.id = 1 THEN 2 ELSE 1, c.entry)]

\* A faulty ProcBuilt: lines 94-96 left out, so the cached module is
\* returned as it is.
ProcBuiltKeeps(c) == c

ProcBuilt(c) ==
    IF Falsy(c.entry) THEN [c EXCEPT !.module = Empty] ELSE c

\* A faulty BuildReturns: the module is read before lines 94-100 and not
\* after them.
BuildReturnsFound(c) == c.module

\* Line 101: build() returns the module of the cache as lines 94-100 left it.
BuildReturns(c) == ProcBuilt(c).module

\* What a call records of itself: whether it threw; for a build, whether
\* the cached module was built from another entry (stale) or from the
\* cached entry (hit), whether the call before it was a build too (again),
\* the module it returned, and the cache it found (before); for a resolve,
\* the sub-field of its argument (field).
Call(op) ==
    [op |-> op, threw |-> FALSE, stale |-> FALSE, hit |-> FALSE, again |-> FALSE,
     module |-> Empty, before |-> Constructed, field |-> None]

ProcResolve(manifest) ==
    /\ procCache' = ProcResolved(processor, procCache, manifest)
    /\ procResult' = [Call("resolve") EXCEPT !.before = procCache,
                                            !.field = SubField(processor, manifest)]
    /\ UNCHANGED <<processor, normalized>>

ProcBuild ==
    LET throws == BuildThrows(procCache)
        built  == IF throws THEN procCache ELSE ProcBuilt(procCache)
    IN  /\ procCache' = built
        /\ procResult' =
              [Call("build") EXCEPT
                 !.threw  = throws,
                 !.stale  = (~Falsy(procCache.entry) /\ procCache.module # Empty
                             /\ procCache.module.entry # procCache.entry),
                 !.hit    = (~Falsy(procCache.entry)
                             /\ procCache.module.entry = procCache.entry),
                 !.before = procCache,
                 !.again  = (procResult.op = "build"),
                 !.module = IF throws THEN Empty ELSE BuildReturns(procCache)]
        /\ UNCHANGED <<processor, normalized>>

\* --------------------------------------------------------- normalizeOptions
\* The options a processor is constructed with.  watch is undefined (or
\* not there), false, true, null or a WatcherOptions object, written as
\* its text; plugins is not there or a list of plugins.
WatchShapes == {None, "false", "true", "null", "{}", "{include}"}
PluginShapes ==
    {Undefined(<<>>), Defined(<<>>), Defined(<<"vue">>), Defined(<<"vue", "legacy">>)}
OptionShapes == [watch : WatchShapes, plugins : PluginShapes]

\* DefaultOverrideBookmarksProcessorOptions.plugins (line 81).
DefaultPlugins == <<>>

\* Lines 108-114: what is assigned to the fields of normalizedOptions.
NormalizedFields(o) ==
    [watch   |-> CASE o.watch \in {"false", None} -> None
                   [] o.watch = "true"           -> "{}"
                   [] OTHER                      -> o.watch,
     plugins |-> IF o.plugins.defined THEN o.plugins ELSE Defined(DefaultPlugins)]

\* A faulty normalizeOptions: line 107 is `const normalizedOptions = options`,
\* so the fields are assigned on the argument.
normalizeOptionsInPlace(options) ==
    [output |-> NormalizedFields(options), options |-> NormalizedFields(options)]

\* Lines 106-116: the object normalizeOptions returns, and its argument
\* after the call.  The fields are assigned on a copy, { ...options }.
normalizeOptions(options) ==
    [output |-> NormalizedFields(options), options |-> options]

NotNormalized ==
    [called |-> FALSE, input |-> [watch |-> None, plugins |-> Undefined(<<>>)],
     options |-> [watch |-> None, plugins |-> Undefined(<<>>)],
     output |-> [watch |-> None, plugins |-> Undefined(<<>>)]]

\* normalizeOptions(input), as the constructor (lines 103-105) and the unit
\* test (test lines 6-12) call it.
NormalizeOptions ==
    \E input \in OptionShapes :
        LET r == normalizeOptions(input)
        IN  /\ normalized' = [called |-> TRUE, input |-> input,
                              options |-> r.options, output |-> r.output]
            /\ UNCHANGED <<processor, procCache, procResult>>

\* --------------------------------------------------------------- behaviours
InitOrchestrator ==
    /\ project \in Projects
    /\ extendManifest \in ExtendForms
    /\ cache = [manifest    |-> Undefined(EmptyManifest),
                entries     |-> Undefined(EmptyEntries),
                entriesDiff |-> Undefined(EmptyDiff)]
    /\ cache2 = [assetChanged |-> FALSE, readFile |-> {}]
    /\ pending = <<>>
    /\ callerManifest = Undefined(EmptyManifest)
    /\ shared = [same |-> FALSE, nested |-> {}]
    /\ previousArgument = Undefined(EmptyManifest)
    /\ resolves = 0
    /\ bundles = 0
    /\ dispatchedDiff = 0
    /\ inCycles = TRUE
    /\ last = Step("new")

\* A processor that holds the module built from its entry, as the unit test
\* of build installs it (test lines 20-29).
ProcEntries == {"a.html", "b.html", "h.html", "n.html"}
Hits == {[entry |-> e, module |-> Module(id, e)] : e \in ProcEntries, id \in {1, 2}}

\* A processor that holds a module and no entry, or the empty string for
\* one, installed the same way.
Orphans == {[entry |-> e, module |-> Module(1, f)] : e \in {None, ""}, f \in {"a.html", "n.html"}}

Init ==
    /\ InitOrchestrator
    /\ processor = "bookmarks"
    /\ procCache = Constructed
    /\ procResult = Call("new")
    /\ normalized = NotNormalized

Next ==
    \/ ResolveCall /\ UNCHANGED procVars
    \/ generateBundle /\ UNCHANGED procVars
    \/ (\E i \in DOMAIN pending : Complete(i)) /\ UNCHANGED procVars
    \/ Microtasks /\ UNCHANGED procVars
    \/ Settle /\ UNCHANGED procVars
    \/ clearCacheById(ManifestPath) /\ UNCHANGED procVars

Spec == Init /\ [][Next]_allVars

\* The watcher's calls: files change and are read between the resolves.
AssetNext ==
    \/ ResolveCall /\ UNCHANGED procVars
    \/ (\E id \in Ids : clearCacheById(id)) /\ UNCHANGED procVars
    \/ (\E id \in AssetIds : readAssetAsBuffer(id)) /\ UNCHANGED procVars

AssetSpec == Init /\ [][AssetNext]_allVars

\* One cycle: a resolve, the generateBundle() after it, and the builds it
\* dispatched, of one of the three projects.
CycleInit ==
    /\ project \in Projects \cup {"workers"}
    /\ extendManifest \in ExtendForms
    /\ cache = [manifest    |-> Undefined(EmptyManifest),
                entries     |-> Undefined(EmptyEntries),
                entriesDiff |-> Undefined(EmptyDiff)]
    /\ cache2 = [assetChanged |-> FALSE, readFile |-> {}]
    /\ pending = <<>>
    /\ callerManifest = Undefined(EmptyManifest)
    /\ shared = [same |-> FALSE, nested |-> {}]
    /\ previousArgument = Undefined(EmptyManifest)
    /\ resolves = 0
    /\ bundles = 0
    /\ dispatchedDiff = 0
    /\ inCycles = TRUE
    /\ last = Step("new")
    /\ processor = "bookmarks"
    /\ procCache = Constructed
    /\ procResult = Call("new")
    /\ normalized = NotNormalized

CycleNext ==
    \/ resolves = 0 /\ ResolveCall /\ UNCHANGED procVars
    \/ resolves = 1 /\ bundles = 0 /\ generateBundle /\ UNCHANGED procVars
    \/ (\E i \in DOMAIN pending : Complete(i)) /\ UNCHANGED procVars
    \/ Microtasks /\ UNCHANGED procVars
    \/ Settle /\ UNCHANGED procVars

CycleSpec == CycleInit /\ [][CycleNext]_allVars

\* One scalar processor, called directly.
ProcInit ==
    /\ InitOrchestrator
    /\ project = "scripts"
    /\ extendManifest = "absent"
    /\ processor \in OverrideSections
    /\ procCache \in {Constructed} \cup Hits \cup Orphans
    /\ procResult = Call("new")
    /\ normalized = NotNormalized

ProcNext ==
    \/ (\E manifest \in {M1, M2, M4, M5} : ProcResolve(manifest)) /\ UNCHANGED vars
    \/ ProcBuild /\ UNCHANGED vars
    \/ NormalizeOptions /\ UNCHANGED vars

ProcSpec == ProcInit /\ [][ProcNext]_allVars

\* ------------------------------------------------------------------ claims
\* The output manifest once every suspended build of the latest
\* generateBundle() call has run to its end.
RECURSIVE RunToEnd(_, _)
RunToEnd(st, t) ==
    IF Throws(t) THEN st
    ELSE LET next == Resumed(st, t)
         IN  IF Rest(t) = <<>> THEN next ELSE RunToEnd(next, Rest(t)[1])

RECURSIVE RunAll(_, _)
RunAll(st, tasks) ==
    IF tasks = <<>> THEN st ELSE RunAll(RunToEnd(st, Head(tasks)), Tail(tasks))

LatestBuilds == SelectSeq(pending, LAMBDA t : t.cycle = bundles)

\* C1: generateBundle() dispatches no build while a build of an earlier diff
\* is still suspended, and no build of an earlier diff patches the output
\* manifest that a later resolve installed.
C1_NoCrossCycle ==
    /\ ~(last.op = "generateBundle" /\ last.dispatched > 0 /\ last.overlap)
    /\ ~(last.op = "complete" /\ last.stale /\ last.patched)

\* C2: when the caller's await of generateBundle() resumes, no build that the
\* call dispatched is still suspended, and toString() returns the manifest
\* with all the patches of the cycle.
C2_SettledMeansBuilt ==
    last.op = "settle" =>
        /\ LatestBuilds = <<>>
        /\ cache.manifest.defined =>
              toString = Defined(stringify(RunAll(Current, LatestBuilds).manifest.value))

\* C3: once the stored diff has been dispatched and every build has ended,
\* every populated section of the output manifest holds the output path of
\* the section's entry in the stored snapshot (no source the bundler fails
\* on being declared).
NoBrokenEntry(e) ==
    \A s \in ArraySections : SeqToSet(e.array[s]) \cap Broken = {}

OutputsOf(q) == [i \in DOMAIN q |-> Output(q[i])]

C3_OutputsInSync ==
    ( /\ inCycles
      /\ resolves > 0
      /\ dispatchedDiff = resolves
      /\ pending = <<>>
      /\ cache.manifest.defined
      /\ NoBrokenEntry(cache.entries.value) )
    => LET out == entries(cache.manifest.value)
           cur == cache.entries.value
       IN  /\ \A s \in ScalarSections :
                 out.scalar[s] # None => out.scalar[s] = Output(cur.scalar[s])
           /\ \A s \in ArraySections :
                 out.array[s] = Distinct(OutputsOf(cur.array[s]))

\* C4: a generateBundle() that follows another with no resolve in between
\* dispatches no build.
C4_NoRedispatch ==
    ~(last.op = "generateBundle" /\ last.redispatch /\ last.dispatched > 0)

\* C6: resolve of a manifest that defines both options_page and options_ui
\* throws and leaves the stored manifest, entries and diff as they were.
C6_InvalidResolveAborts ==
    [][(last'.op = "resolve" /\ last'.both) => (last'.threw /\ cache' = cache)]_allVars

C6_Witness ==
    /\ last.op = "resolve" /\ last.both /\ last.threw
    /\ cache.manifest.defined
    /\ pending # <<>>

\* C7: the diff stored by the first resolve marks every populated section as
\* a create and no section as a delete or an update.
C7_FirstDiffAllCreate ==
    (last.op = "resolve" /\ ~last.threw /\ last.first) =>
        LET cur  == cache.entries.value
            diff == cache.entriesDiff.value
        IN  /\ cache.entriesDiff.defined
            /\ \A s \in ScalarSections :
                  diff.scalar[s] = IF cur.scalar[s] = None THEN NoEntryDiff
                                   ELSE [status |-> "create", entry |-> cur.scalar[s]]
            /\ \A s \in ArraySections :
                  /\ diff.array[s].create = cur.array[s]
                  /\ diff.array[s].delete = <<>>
                  /\ diff.array[s].update = <<>>

C7_Witness ==
    /\ last.op = "resolve" /\ ~last.threw /\ last.first
    /\ cache.entriesDiff.value.scalar["background"].status = "create"
    /\ cache.entriesDiff.value.array["content_scripts"].create # <<>>

\* C8: a resolve given the content that the latest successful resolve was
\* given stores an empty diff and the entries snapshot that was stored.
C8_RepeatedResolveEmptyDiff ==
    [][(last'.op = "resolve" /\ ~last'.threw /\ last'.repeat) =>
          (cache'.entriesDiff = Defined(EmptyDiff) /\ cache'.entries = cache.entries)]_allVars

C8_Witness ==
    /\ last.op = "resolve" /\ ~last.threw /\ last.repeat
    /\ cache.entriesDiff = Defined(EmptyDiff)
    /\ cache.entries.value # EmptyEntries

\* C5: build() on a processor that holds the module built from its non-empty
\* entry returns that very module and leaves the cache as it was; so do two
\* build() calls in a row.
C5_CacheHitReturnsModule ==
    [][(procResult'.op = "build" /\ procResult'.hit) =>
          /\ ~procResult'.threw
          /\ procResult'.module = procCache.module
          /\ procCache' = procCache
          /\ procResult.op = "build" => procResult'.module = procResult.module]_allVars

C5_Witness ==
    /\ procResult.op = "build" /\ procResult.hit /\ ~procResult.threw
    /\ procResult.module # Empty
    /\ procResult.module = procCache.module
    /\ procResult.again

\* The invariant of a processor's cache: a cached module other than Empty
\* has the cached entry as its entry.
ModuleMatchesEntry(c) == c.module # Empty => c.module.entry = c.entry

C10_StaleCacheRebuilds ==
    (procResult.op = "build" /\ procResult.stale) =>
        /\ ~procResult.threw
        /\ procResult.module.entry = procCache.entry
        /\ procCache.module = procResult.module

\* C11: build() on a processor whose entry is unset or empty returns Empty
\* without throwing, leaves Empty as the cached module and the entry as it
\* was, whatever module was cached.
C11_EmptyEntryBuildsEmpty ==
    (procResult.op = "build" /\ Falsy(procResult.before.entry)) =>
        /\ ~procResult.threw
        /\ procResult.module = Empty
        /\ procCache = [procResult.before EXCEPT !.module = Empty]

C11_Witness ==
    /\ procResult.op = "build" /\ Falsy(procResult.before.entry)
    /\ procResult.before.module # Empty
    /\ procCache.module = Empty

C13_NormalizeOptions ==
    normalized.called =>
        LET i == normalized.input
            o == normalized.output
        IN  /\ i.watch \in {None, "false"} => o.watch = None
            /\ i.watch = "true" => o.watch = "{}"
            /\ i.watch \in {"{}", "{include}"} => o.watch = i.watch
            /\ ~i.plugins.defined => o.plugins = Defined(<<>>)
            /\ i.plugins.defined => o.plugins = i.plugins
            /\ normalized.options = i

C13_Witness ==
    /\ normalized.called
    /\ normalized.input = [watch |-> "true", plugins |-> Undefined(<<>>)]
    /\ normalized.output = [watch |-> "{}", plugins |-> Defined(<<>>)]

\* C14: when the build of a scalar section, dispatched for the stored diff
\* as a create or an update, has resumed, the section's field of the output
\* manifest holds the output path of the section's entry, never undefined.
C14_ScalarPatchedWithOutput ==
    (last.op = "complete" /\ ~last.stale /\ cache.manifest.defined) =>
        \A s \in last.secs \cap ScalarSections :
            LET entry == cache.entries.value.scalar[s]
            IN  entry # None =>
                   /\ entries(cache.manifest.value).scalar[s] # None
                   /\ entries(cache.manifest.value).scalar[s] = Output(entry)

\* The override builds that resume together, and the entry of the one of
\* section s.
OverrideBlock ==
    LET micro == SelectSeq(pending, Micro)
    IN  SelectSeq(micro, LAMBDA t : t.cycle = Head(micro).cycle)

BlockEntry(s) ==
    LET t == SelectSeq(OverrideBlock, LAMBDA u : u.sec = s) IN Head(t).entry

\* C15: when override builds have resumed, the sub-field of
\* chrome_url_overrides of each of them holds the output path of its entry,
\* and the other sub-fields are as they were.
C15_OverridePatchFrame ==
    [][(/\ last'.op = "complete"
        /\ last'.secs # {} /\ last'.secs \subseteq OverrideSections
        /\ cache.manifest.defined)
       => \A s \in OverrideSections :
             cache'.manifest.value.chrome_url_overrides[s] =
                IF s \in last'.secs THEN Output(BlockEntry(s))
                ELSE cache.manifest.value.chrome_url_overrides[s]]_allVars

\* The groups of an array section in the manifest m.
Groups(m, s) ==
    IF s = "content_scripts" THEN m.content_scripts ELSE m.web_accessible_resources

\* The step was the return of processor.resolve(last'.input) in the build
\* of the array section s, with an output manifest to patch.
ArrayResolveReturned(s) ==
    /\ last'.op = "complete" /\ last'.secs = {s} /\ last'.input # None
    /\ cache.manifest.defined

C18_FailedSectionUnpatched ==
    (last.op = "fail" /\ ~last.stale /\ bundles = 1 /\ cache.manifest.defined) =>
        /\ \A s \in last.secs \cap ArraySections :
              Flatten(Groups(cache.manifest.value, s)) =
                 Flatten(Groups(previousArgument.value, s))
        /\ \A s \in last.secs \cap ScalarSections :
              entries(cache.manifest.value).scalar[s] = cache.entries.value.scalar[s]

\* C19: a resolve that validates diffs against the empty baseline only when
\* no entries snapshot is stored, which is so on the very first resolve
\* alone; every later one, also one that follows clearCacheById, stores the
\* diff of the stored snapshot and the new entries.
C19_DiffAgainstStoredSnapshot ==
    [][(last'.op = "resolve" /\ ~last'.threw) =>
          /\ cache'.entries.defined
          /\ ~cache.entries.defined <=> (resolves = 0)
          /\ cache'.entriesDiff =
                IF resolves = 0
                THEN Defined(entriesToDiff(cache'.entries.value))
                ELSE Defined(diffEntries(cache.entries.value, cache'.entries.value))]_allVars

\* A resolve after clearCacheById whose diff is not the all-create diff of
\* its entries.
C19_Witness ==
    /\ last.op = "resolve"
    /\ ~last.threw
    /\ last.cleared
    /\ cache.entriesDiff # Defined(entriesToDiff(cache.entries.value))

\* C20: clearCacheById with the manifest file's id discards the output
\* manifest, sets assetChanged to false and leaves the snapshot and the diff;
\* with any other id it leaves the output manifest, the snapshot and the
\* diff, removes the memoized read of that id, and sets assetChanged to
\* whether there was one.
C20_ClearCacheById ==
    [][last'.op = "clearCacheById" =>
          IF last'.id = ManifestPath
          THEN /\ ~cache'.manifest.defined
               /\ ~cache2'.assetChanged
               /\ cache'.entries = cache.entries
               /\ cache'.entriesDiff = cache.entriesDiff
          ELSE /\ cache' = cache
               /\ cache2'.readFile = cache2.readFile \ {last'.id}
               /\ cache2'.assetChanged = (last'.id \in cache2.readFile)]_allVars

\* C21: whatever entry and module the cache of a scalar processor holds,
\* a build() that returns has returned the module the cache holds after it.
C21_BuildReturnsCachedModule ==
    (procResult.op = "build" /\ ~procResult.threw) =>
        procResult.module = procCache.module

\* A build on a cache with the empty string for an entry: what it returned
\* is the module the cache holds now and not the one it held before.
C21_Witness ==
    /\ procResult.op = "build" /\ ~procResult.threw
    /\ procResult.before.entry = ""
    /\ procResult.module # procResult.before.module
    /\ procResult.module = procCache.module

\* The output manifest at the end of the cycle of resolve(manifest), when
\* each build runs to its end before the next one starts, in the order of
\* their dispatch.
CycleEnd(form, manifest) ==
    LET currentManifest == applyExternalManifestConfiguration(form, manifest)
        start == [manifest |-> Defined(currentManifest),
                  caller   |-> Defined(manifest),
                  shared   |-> SharedAfterApply(form)]
    IN  RunAll(start, buildComponents(entriesToDiff(entries(currentManifest)))).manifest

\* C22: in one cycle, once every dispatched build has run to its end, the
\* output manifest is the one that the builds leave when they complete in
\* the order of their dispatch, whatever the order they completed in.
C22_CompletionOrderIrrelevant ==
    (resolves = 1 /\ dispatchedDiff = 1 /\ pending = <<>>) =>
        cache.manifest = CycleEnd(extendManifest, previousArgument.value)

\* The build of content_scripts, dispatched before the build of
\* web_accessible_resources, ends after it; the output path of its first
\* element is the path of its second.
C22_Witness ==
    /\ resolves = 1 /\ dispatchedDiff = 1 /\ pending = <<>>
    /\ last.op = "complete" /\ last.secs = {"content_scripts"} /\ last.input = "w.js"
    /\ cache.manifest.value.web_accessible_resources = << <<"r.js">> >>
    /\ cache.manifest.value.content_scripts = << <<"w.out.js", "w.out.js">> >>

\* C23: after a resolve that returned, whatever the form of
\* options.extendManifest, the output manifest does not define both
\* options_page and options_ui, and neither does the entries snapshot the
\* stored diff was taken from.
C23_StoredManifestValidated ==
    (last.op = "resolve" /\ ~last.threw) =>
        /\ validateChromeExtensionManifest(cache.manifest.value)
        /\ ~(cache.entries.value.scalar["options_page"] # None
              /\ cache.entries.value.scalar["options_ui"] # None)

\* C24: whatever the form of options.extendManifest, the callbacks of
\* buildComponents leave the object the caller passed to resolve, its
\* nested arrays included, with the content it was passed with.
C24_CallerManifestUntouched ==
    callerManifest.defined => callerManifest.value = previousArgument.value

===============================================================================
